---- MODULE Spec2Model ----
(***************************************************************************)
(* Model of advanced-vector/vector.h: RawMemory<T> (an owned block of raw  *)
(* slots) and Vector<T> (size_ live elements at the front of one block).   *)
(*                                                                         *)
(* A block is a sequence of slots; a slot is NoObj (raw storage, no live   *)
(* object), Moved (a live object in its moved-from state) or a value.      *)
(* Positions are 0-based as in the source; slot i of the source is         *)
(* data[i + 1] here.  Every element operation that can throw is numbered   *)
(* in execution order inside one call; the input f of an operation is the  *)
(* number of the step that throws (0: none does).                          *)
(***************************************************************************)
EXTENDS Integers, Sequences, FiniteSets, TLC

\* Bounds of the model.
MaxCap == 4
MaxPair == 2
MaxRegions == 3
MaxRawCap == 2

\* Slot contents.
NoObj == -1
Moved == 0
DefaultVal == 1

\* Element values.  The code never inspects an element, so two values that
\* can be told apart are enough to tell any two slots apart.
Values == {1, 2}
Vectors == {"v", "w"}
None == "-"

\* vecs:    the Vector objects (alive: constructed and not yet destroyed)
\* traits:  static properties of the element type T
\* last:    the record of the last call (its inputs, its outcome and the
\*          fields of the vectors it was called on as they were before the
\*          call), until the record is dropped
\* appends: per vector, the number of PushBack calls since it was created
\*          empty when nothing else was called on it, else -1
\* room:    per vector, the largest block the allocator can supply for it
\* raws:    the RawMemory objects a client holds directly: buffer_ (a region,
\*          or Null) and capacity_
\* regions: per region, whether operator new has returned it and whether
\*          operator delete has released it
VARIABLES vecs, traits, last, appends, room, raws, regions

vars == <<vecs, traits, last, appends, room, raws, regions>>

----------------------------------------------------------------------------
\* Pure helpers on blocks.

Max(a, b) == IF a > b THEN a ELSE b

\* Number of live objects in a block.
NumLive(blk) == Cardinality({i \in 1..Len(blk) : blk[i] # NoObj})

\* Number of live objects in slots [off, off + n) of a block.
NumLiveIn(blk, off, n) ==
    Cardinality({i \in 1..Len(blk) : off < i /\ i <= off + n /\ blk[i] # NoObj})

Allocate(n) == [i \in 1..n |-> NoObj]

Destroy_n(blk, off, n) ==
    [i \in 1..Len(blk) |-> IF off < i /\ i <= off + n THEN NoObj ELSE blk[i]]

\* Placement new of value x in slot off.
Construct(blk, off, x) == [blk EXCEPT ![off + 1] = x]

\* The condition without the noexcept requirement
\* (std::is_move_constructible_v<T> || ...): every T is moved.
UseMove_WithoutNoexcept == TRUE

\* std::is_nothrow_move_constructible_v<T> || !std::is_copy_constructible_v<T>
UseMove == traits.nothrowMove \/ ~traits.copyable

\* Can a move construction or move assignment of T throw?
MoveThrows == ~traits.nothrowMove

\* RawMemory(capacity): operator new is called, and can throw, only for n # 0.
Alloc(n, k, f) ==
    [ok  |-> ~(n # 0 /\ f = k + 1),
     blk |-> Allocate(n),
     k   |-> IF n # 0 THEN k + 1 ELSE k]

\* The m first of n slots from off are set from src[soff ..]; slots of the
\* source that were moved from become Moved when mv.
Put(dst, doff, src, soff, m) ==
    [i \in 1..Len(dst) |->
        IF doff < i /\ i <= doff + m THEN src[soff + (i - doff)] ELSE dst[i]]

MarkMoved(src, soff, m) ==
    [i \in 1..Len(src) |-> IF soff < i /\ i <= soff + m THEN Moved ELSE src[i]]

\* A copy loop that, when a copy throws, leaves the elements it constructed
\* alive.
UninitCopyN_NoRollback(src, soff, n, dst, doff, k, f) ==
    IF k < f /\ f <= k + n
    THEN [ok |-> FALSE, src |-> src, k |-> f,
          dst |-> Put(dst, doff, src, soff, f - k - 1),
          dtors |-> 0,
          over |-> NumLiveIn(dst, doff, f - k - 1)]
    ELSE [ok |-> TRUE, src |-> src, k |-> k + n,
          dst |-> Put(dst, doff, src, soff, n),
          dtors |-> 0,
          over |-> NumLiveIn(dst, doff, n)]

\* std::uninitialized_copy_n(src + soff, n, dst + doff): every copy can throw;
\* on a throw the elements it constructed are destroyed.
UninitCopyN(src, soff, n, dst, doff, k, f) ==
    IF k < f /\ f <= k + n
    THEN [ok |-> FALSE, src |-> src, k |-> f,
          dst |-> Destroy_n(Put(dst, doff, src, soff, f - k - 1), doff, f - k - 1),
          dtors |-> f - k - 1,
          over |-> NumLiveIn(dst, doff, f - k - 1)]
    ELSE [ok |-> TRUE, src |-> src, k |-> k + n,
          dst |-> Put(dst, doff, src, soff, n),
          dtors |-> 0,
          over |-> NumLiveIn(dst, doff, n)]

\* std::uninitialized_move_n(src + soff, n, dst + doff): a move can throw only
\* when T's move constructor is not noexcept.
UninitMoveN(src, soff, n, dst, doff, k, f) ==
    IF MoveThrows /\ k < f /\ f <= k + n
    THEN [ok |-> FALSE, src |-> MarkMoved(src, soff, f - k - 1), k |-> f,
          dst |-> Destroy_n(Put(dst, doff, src, soff, f - k - 1), doff, f - k - 1),
          dtors |-> f - k - 1,
          over |-> NumLiveIn(dst, doff, f - k - 1)]
    ELSE [ok |-> TRUE, src |-> MarkMoved(src, soff, n),
          k |-> IF MoveThrows THEN k + n ELSE k,
          dst |-> Put(dst, doff, src, soff, n),
          dtors |-> 0,
          over |-> NumLiveIn(dst, doff, n)]

CopyN(src, soff, n, dst, doff, k, f) ==
    IF UseMove
    THEN UninitMoveN(src, soff, n, dst, doff, k, f)
    ELSE UninitCopyN(src, soff, n, dst, doff, k, f)

\* std::copy_n(src, n, dst): copy assignment, element by element from the
\* front; a throw leaves the elements assigned so far assigned.
AssignCopyN(src, n, dst, k, f) ==
    IF k < f /\ f <= k + n
    THEN [ok |-> FALSE, k |-> f, dst |-> Put(dst, 0, src, 0, f - k - 1)]
    ELSE [ok |-> TRUE, k |-> k + n, dst |-> Put(dst, 0, src, 0, n)]

\* std::uninitialized_value_construct_n(dst + off, n).
ValueConstructN(dst, off, n, k, f) ==
    IF k < f /\ f <= k + n
    THEN [ok |-> FALSE, k |-> f, dst |-> dst, dtors |-> f - k - 1]
    ELSE [ok |-> TRUE, k |-> k + n, dtors |-> 0,
          dst |-> [i \in 1..Len(dst) |->
                      IF off < i /\ i <= off + n THEN DefaultVal ELSE dst[i]]]

\* One move assignment blk[to] = std::move(blk[from]) (0-based slots).
MoveSlot(blk, from, to) ==
    [blk EXCEPT ![to + 1] = blk[from + 1], ![from + 1] = Moved]

\* std::move_backward(first, last, d_last) inside one block with
\* d_last = last + 1: slots last-1, last-2, ..., first each move one up.
\* m is the number of moves carried out.
RECURSIVE ShiftUp(_, _, _)
ShiftUp(blk, lastSlot, m) ==
    IF m = 0 THEN blk
    ELSE ShiftUp(MoveSlot(blk, lastSlot - 1, lastSlot), lastSlot - 1, m - 1)

\* The shift done front to back, as std::move(first, last, first + 1) would:
\* each slot is overwritten before it has been moved on.
RECURSIVE ShiftUpAscending(_, _, _)
ShiftUpAscending(blk, first, m) ==
    IF m = 0 THEN blk
    ELSE ShiftUpAscending(MoveSlot(blk, first, first + 1), first + 1, m - 1)

MoveBackward_Ascending(blk, first, lastSlot, k, f) ==
    LET n == lastSlot - first IN
    IF MoveThrows /\ k < f /\ f <= k + n
    THEN [ok |-> FALSE, k |-> f, blk |-> ShiftUpAscending(blk, first, f - k - 1)]
    ELSE [ok |-> TRUE, k |-> IF MoveThrows THEN k + n ELSE k,
          blk |-> ShiftUpAscending(blk, first, n)]

MoveBackward(blk, first, lastSlot, k, f) ==
    LET n == lastSlot - first IN
    IF MoveThrows /\ k < f /\ f <= k + n
    THEN [ok |-> FALSE, k |-> f, blk |-> ShiftUp(blk, lastSlot, f - k - 1)]
    ELSE [ok |-> TRUE, k |-> IF MoveThrows THEN k + n ELSE k,
          blk |-> ShiftUp(blk, lastSlot, n)]

\* std::move(first, last, d_first) inside one block with d_first = first - 1:
\* slots first, first+1, ..., last-1 each move one down.
RECURSIVE ShiftDown(_, _, _)
ShiftDown(blk, first, m) ==
    IF m = 0 THEN blk
    ELSE ShiftDown(MoveSlot(blk, first, first - 1), first + 1, m - 1)

\* The shift done back to front, as std::move_backward(first, last, last - 1)
\* would.
RECURSIVE ShiftDownDescending(_, _, _)
ShiftDownDescending(blk, lastSlot, m) ==
    IF m = 0 THEN blk
    ELSE ShiftDownDescending(MoveSlot(blk, lastSlot - 1, lastSlot - 2),
                             lastSlot - 1, m - 1)

MoveForward_Descending(blk, first, lastSlot, k, f) ==
    LET n == lastSlot - first IN
    IF MoveThrows /\ k < f /\ f <= k + n
    THEN [ok |-> FALSE, k |-> f,
          blk |-> ShiftDownDescending(blk, lastSlot, f - k - 1)]
    ELSE [ok |-> TRUE, k |-> IF MoveThrows THEN k + n ELSE k,
          blk |-> ShiftDownDescending(blk, lastSlot, n)]

MoveForward(blk, first, lastSlot, k, f) ==
    LET n == lastSlot - first IN
    IF MoveThrows /\ k < f /\ f <= k + n
    THEN [ok |-> FALSE, k |-> f, blk |-> ShiftDown(blk, first, f - k - 1)]
    ELSE [ok |-> TRUE, k |-> IF MoveThrows THEN k + n ELSE k,
          blk |-> ShiftDown(blk, first, n)]

----------------------------------------------------------------------------
\* Vector<T> operations as functions of the vector's fields.  A result holds
\* the fields after the call, whether the call returned (ok) or threw, the
\* number of live objects in blocks that were released (leaked), the number
\* of destructor calls on slots (dtors), the returned position (ret) and the
\* number of steps that could have thrown (k).

Capacity(vec) == Len(vec.data)

\* ~RawMemory: the region is released whatever it holds; the result is the
\* number of objects that were still live in it.
Release(blk) == NumLive(blk)

\* The value T(std::forward<Args>(args)...) constructs: a fresh value, or a
\* copy of the element of this vector the argument refers to, read when the
\* constructor runs.
ArgVal(data, arg) == IF arg.ref THEN data[arg.x + 1] ELSE arg.x

Res(data, size, ok, leaked, dtors, ret, k) ==
    [data |-> data, size |-> size, ok |-> ok, leaked |-> leaked,
     dtors |-> dtors, ret |-> ret, k |-> k]

\* Growth by one slot instead of doubling.
GrownCapacity_ByOne(size) == size + 1

\* size_ == 0 ? 1 : size_ * 2
GrownCapacity(size) == IF size = 0 THEN 1 ELSE size * 2

EmplaceBack(vec, arg, f) ==
    LET size == vec.size
        data == vec.data
    IN  IF size = Capacity(vec)
        THEN LET a == Alloc(GrownCapacity(size), 0, f) IN
             IF ~a.ok THEN Res(data, size, FALSE, 0, 0, 0, f)
             ELSE IF f = a.k + 1
             THEN Res(data, size, FALSE, Release(a.blk), 0, 0, f)
             ELSE LET nd == Construct(a.blk, size, ArgVal(data, arg))
                      c  == CopyN(data, 0, size, nd, 0, a.k + 1, f)
                  IN  IF ~c.ok
                      THEN Res(c.src, size, FALSE, Release(c.dst), c.dtors, 0,
                               f)
                      ELSE LET old == Destroy_n(c.src, 0, size) IN
                           Res(c.dst, size + 1, TRUE, Release(old), size, size,
                               c.k)
        ELSE IF f = 1
             THEN Res(data, size, FALSE, 0, 0, 0, f)
             ELSE Res(Construct(data, size, ArgVal(data, arg)), size + 1,
                      TRUE, 0, 0, size, 1)

PushBack(vec, arg, f) == EmplaceBack(vec, arg, f)

\* A PopBack that also gives back the slot it vacated.
PopBack_Shrinking(vec) ==
    Res(SubSeq(vec.data, 1, Capacity(vec) - 1), vec.size - 1, TRUE, 0, 1, 0,
        0)

\* Precondition: size_ > 0.
PopBack(vec) ==
    Res(Destroy_n(vec.data, vec.size - 1, 1), vec.size - 1, TRUE, 0, 1, 0, 0)

\* The growth path without the try/catch around the relocation of the
\* second partition.
EmplaceGrow_NoSecondCatch(vec, distance, arg, f) ==
    LET size == vec.size
        data == vec.data
        a    == Alloc(GrownCapacity(size), 0, f)
    IN  IF ~a.ok THEN Res(data, size, FALSE, 0, 0, distance, f)
        ELSE IF f = a.k + 1
        THEN Res(data, size, FALSE, Release(a.blk), 0, distance, f)
        ELSE LET nd == Construct(a.blk, distance, ArgVal(data, arg))
                 c1 == CopyN(data, 0, distance, nd, 0, a.k + 1, f)
             IN  IF ~c1.ok
                 THEN LET nd1 == Destroy_n(c1.dst, distance, 1) IN
                      Res(c1.src, size, FALSE, Release(nd1), c1.dtors + 1,
                          distance, f)
                 ELSE LET c2 == CopyN(c1.src, distance, size - distance,
                                      c1.dst, distance + 1, c1.k, f)
                      IN  IF ~c2.ok
                          THEN Res(c2.src, size, FALSE, Release(c2.dst),
                                   c2.dtors, distance, f)
                          ELSE LET old == Destroy_n(c2.src, 0, size) IN
                               Res(c2.dst, size + 1, TRUE, Release(old), size,
                                   distance, c2.k)

\* Growth path of Emplace (size_ == Capacity()).
EmplaceGrow(vec, distance, arg, f) ==
    LET size == vec.size
        data == vec.data
        a    == Alloc(GrownCapacity(size), 0, f)
    IN  IF ~a.ok THEN Res(data, size, FALSE, 0, 0, distance, f)
        ELSE IF f = a.k + 1
        THEN Res(data, size, FALSE, Release(a.blk), 0, distance, f)
        ELSE LET nd == Construct(a.blk, distance, ArgVal(data, arg))
                 c1 == CopyN(data, 0, distance, nd, 0, a.k + 1, f)
             IN  IF ~c1.ok
                 THEN LET nd1 == Destroy_n(c1.dst, distance, 1) IN
                      Res(c1.src, size, FALSE, Release(nd1), c1.dtors + 1,
                          distance, f)
                 ELSE LET c2 == CopyN(c1.src, distance, size - distance,
                                      c1.dst, distance + 1, c1.k, f)
                      IN  IF ~c2.ok
                          THEN LET nd2 == Destroy_n(c2.dst, 0, distance + 1) IN
                               Res(c2.src, size, FALSE, Release(nd2),
                                   c2.dtors + distance + 1, distance, f)
                          ELSE LET old == Destroy_n(c2.src, 0, size) IN
                               Res(c2.dst, size + 1, TRUE, Release(old), size,
                                   distance, c2.k)

\* No-growth path of Emplace (size_ < Capacity()).
EmplaceInPlace(vec, distance, arg, f) ==
    LET size == vec.size
        data == vec.data
    IN  IF distance < size
        THEN IF MoveThrows /\ f = 1
             THEN Res(data, size, FALSE, 0, 0, distance, f)
             ELSE LET k1 == IF MoveThrows THEN 1 ELSE 0
                      d1 == [data EXCEPT ![size + 1] = data[size],
                                         ![size] = Moved]
                      mb == MoveBackward(d1, distance, size - 1, k1, f)
                      k2 == mb.k + (IF MoveThrows THEN 2 ELSE 1)
                  IN  IF ~mb.ok
                      THEN Res(mb.blk, size, FALSE, 0, 0, distance, f)
                      ELSE IF f = mb.k + 1
                      THEN Res(mb.blk, size, FALSE, 0, 0, distance, f)
                      ELSE IF MoveThrows /\ f = mb.k + 2
                      THEN Res(mb.blk, size, FALSE, 0, 0, distance, f)
                      ELSE Res(Construct(mb.blk, distance,
                                         ArgVal(mb.blk, arg)),
                               size + 1, TRUE, 0, 0, distance, k2)
        ELSE IF f = 1
             THEN Res(data, size, FALSE, 0, 0, distance, f)
             ELSE Res(Construct(data, distance, ArgVal(data, arg)), size + 1,
                      TRUE, 0, 0, distance, 1)

\* Precondition: 0 <= distance <= size_.
Emplace(vec, distance, arg, f) ==
    IF vec.size = Capacity(vec)
    THEN EmplaceGrow(vec, distance, arg, f)
    ELSE EmplaceInPlace(vec, distance, arg, f)

Insert(vec, distance, arg, f) == Emplace(vec, distance, arg, f)

\* Erase without the shift: only the trailing element is destroyed.
Erase_NoShift(vec, distance, f) ==
    Res(Destroy_n(vec.data, vec.size - 1, 1), vec.size - 1, TRUE, 0, 1,
        distance, 0)

\* Precondition: 0 <= distance < size_.
Erase(vec, distance, f) ==
    LET size == vec.size
        mv   == MoveForward(vec.data, distance + 1, size, 0, f)
    IN  IF ~mv.ok
        THEN Res(mv.blk, size, FALSE, 0, 0, distance, f)
        ELSE Res(Destroy_n(mv.blk, size - 1, 1), size - 1, TRUE, 0, 1,
                 distance, mv.k)

\* Reserve with the early return on new_capacity <= size_ instead of
\* new_capacity <= Capacity().
Reserve_ComparingSize(vec, new_capacity, f) ==
    LET size == vec.size
        data == vec.data
    IN  IF new_capacity <= size
        THEN Res(data, size, TRUE, 0, 0, 0, 0)
        ELSE LET a == Alloc(new_capacity, 0, f) IN
             IF ~a.ok THEN Res(data, size, FALSE, 0, 0, 0, f)
             ELSE LET c == CopyN(data, 0, size, a.blk, 0, a.k, f) IN
                  IF ~c.ok
                  THEN Res(c.src, size, FALSE, Release(c.dst), c.dtors, 0, f)
                  ELSE LET old == Destroy_n(c.src, 0, size) IN
                       Res(c.dst, size, TRUE, Release(old), size, 0, c.k)

Reserve(vec, new_capacity, f) ==
    LET size == vec.size
        data == vec.data
    IN  IF new_capacity <= Capacity(vec)
        THEN Res(data, size, TRUE, 0, 0, 0, 0)
        ELSE LET a == Alloc(new_capacity, 0, f) IN
             IF ~a.ok THEN Res(data, size, FALSE, 0, 0, 0, f)
             ELSE LET c == CopyN(data, 0, size, a.blk, 0, a.k, f) IN
                  IF ~c.ok
                  THEN Res(c.src, size, FALSE, Release(c.dst), c.dtors, 0, f)
                  ELSE LET old == Destroy_n(c.src, 0, size) IN
                       Res(c.dst, size, TRUE, Release(old), size, 0, c.k)

\* Resize constructing the new elements from data_.GetAddress() instead of
\* data_ + size_.
Resize_FromStart(vec, new_size, f) ==
    LET size == vec.size
        data == vec.data
    IN  IF new_size < size
        THEN Res(Destroy_n(data, new_size, size - new_size), new_size, TRUE,
                 0, size - new_size, 0, 0)
        ELSE LET r == Reserve(vec, new_size, f) IN
             IF ~r.ok THEN r
             ELSE LET vc == ValueConstructN(r.data, 0, new_size - size,
                                            r.k, f)
                  IN  IF ~vc.ok
                      THEN Res(r.data, size, FALSE, r.leaked,
                               r.dtors + vc.dtors, 0, f)
                      ELSE Res(vc.dst, new_size, TRUE, r.leaked, r.dtors, 0,
                               vc.k)

Resize(vec, new_size, f) ==
    LET size == vec.size
        data == vec.data
    IN  IF new_size < size
        THEN Res(Destroy_n(data, new_size, size - new_size), new_size, TRUE,
                 0, size - new_size, 0, 0)
        ELSE LET r == Reserve(vec, new_size, f) IN
             IF ~r.ok THEN r
             ELSE LET vc == ValueConstructN(r.data, size, new_size - size,
                                            r.k, f)
                  IN  IF ~vc.ok
                      THEN Res(r.data, size, FALSE, r.leaked,
                               r.dtors + vc.dtors, 0, f)
                      ELSE Res(vc.dst, new_size, TRUE, r.leaked, r.dtors, 0,
                               vc.k)

----------------------------------------------------------------------------
\* Construction, destruction, assignment and swap.

Vec(alive, data, size) == [alive |-> alive, data |-> data, size |-> size]

\* A Vector that does not exist (not constructed yet, or destroyed).
Dead == Vec(FALSE, <<>>, 0)

\* Vector() = default
EmptyVector == Vec(TRUE, <<>>, 0)

Res2(this, other, ok, leaked, dtors, k) ==
    [this |-> this, other |-> other, ok |-> ok, leaked |-> leaked,
     dtors |-> dtors, k |-> k]

\* A sized constructor that sets size_ without constructing the elements.
SizedVector_Unconstructed(n, f) ==
    LET a == Alloc(n, 0, f) IN
    IF ~a.ok THEN Res2(Dead, Dead, FALSE, 0, 0, f)
    ELSE Res2(Vec(TRUE, a.blk, n), Dead, TRUE, 0, 0, a.k)

\* explicit Vector(size_t size)
SizedVector(n, f) ==
    LET a == Alloc(n, 0, f) IN
    IF ~a.ok THEN Res2(Dead, Dead, FALSE, 0, 0, f)
    ELSE LET vc == ValueConstructN(a.blk, 0, n, a.k, f) IN
         IF ~vc.ok THEN Res2(Dead, Dead, FALSE, Release(vc.dst), vc.dtors, f)
         ELSE Res2(Vec(TRUE, vc.dst, n), Dead, TRUE, 0, 0, vc.k)

\* ~Vector, then ~RawMemory of data_
DestroyVector(vec) ==
    LET d == Destroy_n(vec.data, 0, vec.size) IN
    Res2(Dead, Dead, TRUE, Release(d), vec.size, 0)

\* A copy constructor that fills its block with std::uninitialized_move_n:
\* the elements of other are left moved from.
CopyVector_Moving(other, f) ==
    LET a == Alloc(other.size, 0, f) IN
    IF ~a.ok THEN Res2(Dead, other, FALSE, 0, 0, f)
    ELSE LET c == UninitMoveN(other.data, 0, other.size, a.blk, 0, a.k, f) IN
         IF ~c.ok
         THEN Res2(Dead, Vec(TRUE, c.src, other.size), FALSE, Release(c.dst),
                   c.dtors, f)
         ELSE Res2(Vec(TRUE, c.dst, other.size), Vec(TRUE, c.src, other.size),
                   TRUE, 0, 0, c.k)

\* Vector(const Vector& other)
CopyVector(other, f) ==
    LET a == Alloc(other.size, 0, f) IN
    IF ~a.ok THEN Res2(Dead, other, FALSE, 0, 0, f)
    ELSE LET c == UninitCopyN(other.data, 0, other.size, a.blk, 0, a.k, f) IN
         IF ~c.ok THEN Res2(Dead, other, FALSE, Release(c.dst), c.dtors, f)
         ELSE Res2(Vec(TRUE, c.dst, other.size), other, TRUE, 0, 0, c.k)

\* A move constructor that copies the fields without std::exchange: the
\* source keeps its block and its size.
MoveVector_KeepingSource(other) ==
    Res2(Vec(TRUE, other.data, other.size), other, TRUE, 0, 0, 0)

\* Vector(Vector&& other), with RawMemory(RawMemory&&)
MoveVector(other) ==
    Res2(Vec(TRUE, other.data, other.size), Vec(TRUE, <<>>, 0), TRUE, 0, 0, 0)

\* Vector::Swap, with RawMemory::Swap
SwapVector(this, other) == Res2(other, this, TRUE, 0, 0, 0)

\* Offset in data_ at which the in-place branch of copy assignment
\* constructs the elements [size_, rhs.size_): data_.GetAddress().
AssignTailOffset(size) == 0

\* Vector& operator=(const Vector& rhs), this != &rhs
CopyAssign(this, rhs, f) ==
    LET size == this.size
        data == this.data
    IN  IF rhs.size > Capacity(this)
        THEN LET c == CopyVector(rhs, f) IN
             IF ~c.ok THEN Res2(this, rhs, FALSE, c.leaked, c.dtors, f)
             ELSE LET d == DestroyVector(this) IN
                  Res2(c.this, rhs, TRUE, d.leaked, d.dtors, c.k)
        ELSE IF size > rhs.size
        THEN LET as == AssignCopyN(rhs.data, rhs.size, data, 0, f) IN
             IF ~as.ok
             THEN Res2(Vec(TRUE, as.dst, size), rhs, FALSE, 0, 0, f)
             ELSE Res2(Vec(TRUE, Destroy_n(as.dst, rhs.size, size - rhs.size),
                           rhs.size),
                       rhs, TRUE, 0, size - rhs.size, as.k)
        ELSE LET as == AssignCopyN(rhs.data, size, data, 0, f) IN
             IF ~as.ok
             THEN Res2(Vec(TRUE, as.dst, size), rhs, FALSE, 0, 0, f)
             ELSE LET c == UninitCopyN(rhs.data, size, rhs.size - size, as.dst,
                                       AssignTailOffset(size), as.k, f)
                  IN  IF ~c.ok
                      THEN Res2(Vec(TRUE, c.dst, size), rhs, FALSE, c.over,
                                c.dtors, f)
                      ELSE Res2(Vec(TRUE, c.dst, rhs.size), rhs, TRUE, c.over,
                                0, c.k)

\* A move assignment that releases what this held and empties rhs.
MoveAssign_Emptying(this, rhs) ==
    Res2(rhs, EmptyVector, TRUE, 0, this.size, 0)

\* Vector& operator=(Vector&& rhs), this != &rhs
MoveAssign(this, rhs) == SwapVector(this, rhs)

\* What a slot of [0, size_) without a live object reads as: any bit pattern
\* of a T.
Garbage == Values \cup {Moved}

HasHole(vec) == \E i \in 1..vec.size : vec.data[i] = NoObj

\* The fields of a vector as a call on it finds them.
Observed(vec) ==
    IF ~HasHole(vec) THEN {vec}
    ELSE {[vec EXCEPT !.data = d] :
            d \in {e \in [1..Len(vec.data) -> Garbage \cup {NoObj}] :
                     \A i \in 1..Len(vec.data) :
                        IF i <= vec.size /\ vec.data[i] = NoObj
                        THEN e[i] \in Garbage
                        ELSE e[i] = vec.data[i]}}

----------------------------------------------------------------------------
\* The calls of a client, one action each.

NoArg == [ref |-> FALSE, x |-> 0]

\* Arguments of PushBack and Insert: a fresh value, or (for a copyable T) a
\* reference to the element at index x of the vector itself.
Args(vec) ==
    {[ref |-> FALSE, x |-> x] : x \in Values}
    \cup (IF traits.copyable
          THEN {[ref |-> TRUE, x |-> j] : j \in 0..(vec.size - 1)}
          ELSE {})

\* The record of a call.  prior holds the fields the vector had before the
\* call that came just before this one, when this call was made while that
\* call's record was still kept; else it is Dead.
\* f is the number of the step that threw (0 when the call returned).
Call(op, v, w, n, arg, ok, f, ret, leaked, dtors, bv, bw, prior) ==
    [op |-> op, v |-> v, w |-> w, n |-> n, arg |-> arg, ok |-> ok, f |-> f,
     ret |-> ret, leaked |-> leaked, dtors |-> dtors,
     before |-> bv, beforeW |-> bw, prior |-> prior]

\* No record is kept.
Idle == Call(None, None, None, 0, NoArg, TRUE, 0, 0, 0, 0, Dead, Dead, Dead)

\* The blocks held after a call are blocks the allocator can supply.
Within(vs) == \A x \in Vectors : vs[x].alive => Capacity(vs[x]) <= room[x]

\* Calls are made when no record is kept.  A behaviour is followed up to the
\* first call that throws: the record of that call is never dropped.
Ready == last = Idle

\* The record of a call that returned is dropped; the vectors stay as they
\* are.
Settle ==
    /\ last # Idle /\ last.ok
    /\ last' = Idle
    /\ UNCHANGED <<vecs, traits, appends, room, raws, regions>>

\* PopBack on v is also made right after a PushBack on v that returned, and
\* Erase at pos right after an Insert at pos that returned.
Follows(op, v, pos) ==
    /\ last.op = op /\ last.ok /\ last.v = v /\ last.n = pos

\* One-vector calls: the result r of the operation on the observed fields me.
Step1(op, v, n, arg, me, r, prior) ==
    /\ Len(r.data) <= room[v]
    /\ vecs' = [vecs EXCEPT ![v] = Vec(TRUE, r.data, r.size)]
    /\ last' = Call(op, v, None, n, arg, r.ok, IF r.ok THEN 0 ELSE r.k,
                    r.ret, r.leaked, r.dtors, me, Dead, prior)
    /\ UNCHANGED <<traits, room, raws, regions>>

\* Two-vector calls and constructors: the result r holds both vectors.
Step2(op, v, w, n, me, other, r) ==
    /\ vecs' = IF w = None THEN [vecs EXCEPT ![v] = r.this]
               ELSE [vecs EXCEPT ![v] = r.this, ![w] = r.other]
    /\ Within(vecs')
    /\ last' = Call(op, v, w, n, NoArg, r.ok, IF r.ok THEN 0 ELSE r.k, 0,
                    r.leaked, r.dtors, me, other, Dead)
    /\ UNCHANGED <<traits, room, raws, regions>>

Forget(v) == appends' = [appends EXCEPT ![v] = -1]
Forget2(v, w) == appends' = [appends EXCEPT ![v] = -1, ![w] = -1]

OpCreate(v) ==
    /\ Ready /\ ~vecs[v].alive
    /\ Step2("Create", v, None, 0, vecs[v], Dead,
             Res2(EmptyVector, Dead, TRUE, 0, 0, 0))
    /\ appends' = [appends EXCEPT ![v] = 0]

OpCreateSized(v) ==
    /\ Ready /\ ~vecs[v].alive
    /\ \E n \in 0..room[v] :
        LET r0 == SizedVector(n, 0) IN
        \E f \in 0..r0.k :
            LET r == IF f = 0 THEN r0 ELSE SizedVector(n, f) IN
            /\ Step2("CreateSized", v, None, n, vecs[v], Dead, r)
            /\ Forget(v)

OpCopyConstruct(v) ==
    /\ Ready /\ ~vecs[v].alive /\ traits.copyable
    /\ \E w \in Vectors \ {v} :
        /\ vecs[w].alive
        /\ \E other \in Observed(vecs[w]) :
            LET r0 == CopyVector(other, 0) IN
            \E f \in 0..r0.k :
                LET r == IF f = 0 THEN r0 ELSE CopyVector(other, f) IN
                /\ Step2("CopyConstruct", v, w, 0, vecs[v], other, r)
                /\ Forget2(v, w)

OpMoveConstruct(v) ==
    /\ Ready /\ ~vecs[v].alive
    /\ \E w \in Vectors \ {v} :
        /\ vecs[w].alive
        /\ Step2("MoveConstruct", v, w, 0, vecs[v], vecs[w],
                 MoveVector(vecs[w]))
        /\ Forget2(v, w)

OpDestroy(v) ==
    /\ Ready /\ vecs[v].alive
    /\ \E me \in Observed(vecs[v]) :
        /\ Step2("Destroy", v, None, 0, me, Dead, DestroyVector(me))
        /\ Forget(v)

OpCopyAssign(v) ==
    /\ Ready /\ vecs[v].alive /\ traits.copyable
    /\ \E w \in Vectors :
        /\ vecs[w].alive
        /\ \E me \in Observed(vecs[v]), other \in Observed(vecs[w]) :
            IF v = w
            THEN /\ Step2("CopyAssign", v, None, 0, me, Dead,
                          Res2(me, Dead, TRUE, 0, 0, 0))
                 /\ Forget(v)
            ELSE LET r0 == CopyAssign(me, other, 0) IN
                 \E f \in 0..r0.k :
                     LET r == IF f = 0 THEN r0 ELSE CopyAssign(me, other, f)
                     IN  /\ Step2("CopyAssign", v, w, 0, me, other, r)
                         /\ Forget2(v, w)

OpMoveAssign(v) ==
    /\ Ready /\ vecs[v].alive
    /\ \E w \in Vectors :
        /\ vecs[w].alive
        /\ IF v = w
           THEN Step2("MoveAssign", v, None, 0, vecs[v], Dead,
                      Res2(vecs[v], Dead, TRUE, 0, 0, 0))
           ELSE Step2("MoveAssign", v, w, 0, vecs[v], vecs[w],
                      MoveAssign(vecs[v], vecs[w]))
        /\ Forget2(v, w)

OpSwap(v) ==
    /\ Ready /\ vecs[v].alive
    /\ \E w \in Vectors :
        /\ vecs[w].alive
        /\ IF v = w
           THEN Step2("Swap", v, None, 0, vecs[v], Dead,
                      Res2(vecs[v], Dead, TRUE, 0, 0, 0))
           ELSE Step2("Swap", v, w, 0, vecs[v], vecs[w],
                      SwapVector(vecs[v], vecs[w]))
        /\ Forget2(v, w)

OpPushBack(v) ==
    /\ Ready /\ vecs[v].alive
    /\ \E me \in Observed(vecs[v]) :
        \E arg \in Args(me) :
            LET r0 == PushBack(me, arg, 0) IN
            \E f \in 0..r0.k :
                LET r == IF f = 0 THEN r0 ELSE PushBack(me, arg, f) IN
                /\ Step1("PushBack", v, 0, arg, me, r, Dead)
                /\ appends' = [appends EXCEPT
                                 ![v] = IF @ >= 0 /\ r.ok THEN @ + 1 ELSE @]

OpPopBack(v) ==
    /\ Ready \/ Follows("PushBack", v, 0)
    /\ vecs[v].alive
    /\ \E me \in Observed(vecs[v]) :
        /\ me.size > 0
        /\ Step1("PopBack", v, 0, NoArg, me, PopBack(me),
                 IF Ready THEN Dead ELSE last.before)
        /\ Forget(v)

OpInsert(v) ==
    /\ Ready /\ vecs[v].alive
    /\ \E me \in Observed(vecs[v]) :
        \E arg \in Args(me), pos \in 0..me.size :
            LET r0 == Insert(me, pos, arg, 0) IN
            \E f \in 0..r0.k :
                LET r == IF f = 0 THEN r0 ELSE Insert(me, pos, arg, f) IN
                /\ Step1("Insert", v, pos, arg, me, r, Dead)
                /\ Forget(v)

OpErase(v) ==
    /\ vecs[v].alive
    /\ \E me \in Observed(vecs[v]) :
        \E pos \in 0..(me.size - 1) :
            /\ Ready \/ Follows("Insert", v, pos)
            /\ LET r0 == Erase(me, pos, 0) IN
               \E f \in 0..r0.k :
                   LET r == IF f = 0 THEN r0 ELSE Erase(me, pos, f) IN
                   /\ Step1("Erase", v, pos, NoArg, me, r,
                            IF Ready THEN Dead ELSE last.before)
                   /\ Forget(v)

OpReserve(v) ==
    /\ Ready /\ vecs[v].alive
    /\ \E me \in Observed(vecs[v]), n \in 0..room[v] :
        LET r0 == Reserve(me, n, 0) IN
        \E f \in 0..r0.k :
            LET r == IF f = 0 THEN r0 ELSE Reserve(me, n, f) IN
            /\ Step1("Reserve", v, n, NoArg, me, r, Dead)
            /\ Forget(v)

OpResize(v) ==
    /\ Ready /\ vecs[v].alive
    /\ \E me \in Observed(vecs[v]), n \in 0..room[v] :
        LET r0 == Resize(me, n, 0) IN
        \E f \in 0..r0.k :
            LET r == IF f = 0 THEN r0 ELSE Resize(me, n, f) IN
            /\ Step1("Resize", v, n, NoArg, me, r, Dead)
            /\ Forget(v)

----------------------------------------------------------------------------
\* RawMemory<T> used on its own: objects with the fields buffer_ and
\* capacity_, over the regions operator new returns.

Raws == {"a", "b"}
Regions == 1..MaxRegions

\* nullptr
Null == 0

Raw(alive, buffer, capacity) ==
    [alive |-> alive, buffer |-> buffer, capacity |-> capacity]

\* A RawMemory that does not exist (not constructed yet, or destroyed).
NoRaw == Raw(FALSE, Null, 0)

\* RawMemory() = default
EmptyRaw == Raw(TRUE, Null, 0)

\* The region operator new returns: one it has not returned before.
FreshRegion == CHOOSE g \in Regions :
                  /\ regions[g] = "unused"
                  /\ \A h \in Regions : regions[h] = "unused" => g <= h

\* Allocate(n): nullptr for n == 0, else a region from operator new.
AllocateRegion(n) == IF n # 0 THEN FreshRegion ELSE Null

\* Deallocate(buf): operator delete; nothing happens for nullptr.
Deallocate(buf) ==
    IF buf = Null THEN regions
    ELSE [regions EXCEPT ![buf] = "released"]

\* RawMemory(RawMemory&& other): the two objects after the call.
RawMoveConstruct(other) ==
    [this  |-> Raw(TRUE, other.buffer, other.capacity),
     other |-> Raw(TRUE, Null, 0)]

\* A move assignment that takes the fields of rhs and leaves rhs empty,
\* without releasing or handing over what this held.
RawMoveAssign_Overwriting(this, rhs) ==
    [this  |-> Raw(TRUE, rhs.buffer, rhs.capacity),
     other |-> Raw(TRUE, Null, 0)]

\* RawMemory& operator=(RawMemory&& rhs), &rhs != this: the two objects
\* after the call.
RawMoveAssign(this, rhs) ==
    [this  |-> Raw(TRUE, rhs.buffer, rhs.capacity),
     other |-> Raw(TRUE, this.buffer, this.capacity)]

\* RawMemory::Swap
RawSwap(this, other) ==
    [this  |-> Raw(TRUE, other.buffer, other.capacity),
     other |-> Raw(TRUE, this.buffer, this.capacity)]

\* The record of a call on RawMemory objects r and s.
RawCall(op, r, s, n) ==
    Call(op, r, s, n, NoArg, TRUE, 0, 0, 0, 0, raws[r],
         IF s = None THEN NoRaw ELSE raws[s], Dead)

RawStep(op, r, s, n, res) ==
    /\ raws' = IF s = None THEN [raws EXCEPT ![r] = res.this]
               ELSE [raws EXCEPT ![r] = res.this, ![s] = res.other]
    /\ last' = RawCall(op, r, s, n)
    /\ UNCHANGED <<vecs, traits, appends, room>>

OpRawCreate(r) ==
    /\ ~raws[r].alive
    /\ RawStep("RawCreate", r, None, 0, [this |-> EmptyRaw])
    /\ UNCHANGED regions

OpRawCreateSized(r) ==
    /\ ~raws[r].alive
    /\ \E n \in 0..MaxRawCap :
        /\ n # 0 => \E g \in Regions : regions[g] = "unused"
        /\ LET buf == AllocateRegion(n) IN
           /\ RawStep("RawCreateSized", r, None, n,
                      [this |-> Raw(TRUE, buf, n)])
           /\ regions' = IF buf = Null THEN regions
                         ELSE [regions EXCEPT ![buf] = "held"]

OpRawDestroy(r) ==
    /\ raws[r].alive
    /\ RawStep("RawDestroy", r, None, 0, [this |-> NoRaw])
    /\ regions' = Deallocate(raws[r].buffer)

OpRawMoveConstruct(r) ==
    /\ ~raws[r].alive
    /\ \E s \in Raws \ {r} :
        /\ raws[s].alive
        /\ RawStep("RawMoveConstruct", r, s, 0, RawMoveConstruct(raws[s]))
    /\ UNCHANGED regions

OpRawMoveAssign(r) ==
    /\ raws[r].alive
    /\ \E s \in Raws :
        /\ raws[s].alive
        /\ IF s = r
           THEN RawStep("RawMoveAssign", r, None, 0, [this |-> raws[r]])
           ELSE RawStep("RawMoveAssign", r, s, 0,
                        RawMoveAssign(raws[r], raws[s]))
    /\ UNCHANGED regions

OpRawSwap(r) ==
    /\ raws[r].alive
    /\ \E s \in Raws \ {r} :
        /\ raws[s].alive
        /\ RawStep("RawSwap", r, s, 0, RawSwap(raws[r], raws[s]))
    /\ UNCHANGED regions

----------------------------------------------------------------------------
Traits == [nothrowMove : BOOLEAN, copyable : BOOLEAN]

\* Either one vector with blocks up to MaxCap, for every T (the other vector
\* is never constructed); or two vectors with blocks up to MaxPair, for the
\* copyable T with a noexcept move (the calls on two vectors depend on no
\* other trait).
Single == [x \in Vectors |-> IF x = "v" THEN MaxCap ELSE -1]
Pair == [x \in Vectors |-> MaxPair]
Worlds ==
    {<<Single, t>> : t \in Traits}
    \cup {<<Pair, [nothrowMove |-> TRUE, copyable |-> TRUE]>>}

Init ==
    /\ vecs = [v \in Vectors |-> Dead]
    /\ \E wd \in Worlds : room = wd[1] /\ traits = wd[2]
    /\ last = Idle
    /\ appends = [v \in Vectors |-> -1]
    /\ raws = [r \in Raws |-> NoRaw]
    /\ regions = [g \in Regions |-> "unused"]

Next ==
    \/ \E v \in Vectors :
        \/ OpCreate(v)
        \/ OpCreateSized(v)
        \/ OpCopyConstruct(v)
        \/ OpMoveConstruct(v)
        \/ OpDestroy(v)
        \/ OpCopyAssign(v)
        \/ OpMoveAssign(v)
        \/ OpSwap(v)
        \/ OpPushBack(v)
        \/ OpPopBack(v)
        \/ OpInsert(v)
        \/ OpErase(v)
        \/ OpReserve(v)
        \/ OpResize(v)
    \/ Settle

Spec == Init /\ [][Next]_vars

\* A client that uses RawMemory objects only.
InitRaw ==
    /\ vecs = [v \in Vectors |-> Dead]
    /\ room = Pair /\ traits = [nothrowMove |-> TRUE, copyable |-> TRUE]
    /\ last = Idle
    /\ appends = [v \in Vectors |-> -1]
    /\ raws = [r \in Raws |-> NoRaw]
    /\ regions = [g \in Regions |-> "unused"]

NextRaw ==
    \E r \in Raws :
        \/ OpRawCreate(r)
        \/ OpRawCreateSized(r)
        \/ OpRawDestroy(r)
        \/ OpRawMoveConstruct(r)
        \/ OpRawMoveAssign(r)
        \/ OpRawSwap(r)

SpecRaw == InitRaw /\ [][NextRaw]_vars

----------------------------------------------------------------------------
\* Properties.

\* The elements of a vector: the contents of slots [0, size_).
Elems(vec) == SubSeq(vec.data, 1, vec.size)

\* The vector a kept record is about, and the other vector of the call.
This == vecs[last.v]
Other == vecs[last.w]

Returned(op) == last.op = op /\ last.ok
Threw(op) == last.op = op /\ ~last.ok

\* The class invariant of one vector.
WellFormed(vec) ==
    /\ 0 <= vec.size /\ vec.size <= Capacity(vec)
    /\ \A i \in 1..Capacity(vec) :
          IF i <= vec.size THEN vec.data[i] # NoObj ELSE vec.data[i] = NoObj

\* C1: after any sequence of calls that all returned, every vector has
\* 0 <= size <= capacity, a live element in every slot of [0, size) and no
\* live element in any slot of [size, capacity).
C1_Invariant ==
    last.ok => \A x \in Vectors : vecs[x].alive => WellFormed(vecs[x])

\* C2: after a copy assignment v = w of distinct vectors that returned, v has
\* the size of w and w's element at every index, and w is unchanged.
C2_CopyAssign ==
    (Returned("CopyAssign") /\ last.w # None) =>
        /\ This.size = last.beforeW.size
        /\ Elems(This) = Elems(last.beforeW)
        /\ Other = last.beforeW

\* C3 as stated: after a move assignment v = std::move(w) of distinct
\* vectors, w has size 0 and capacity 0 and v holds what w held.
C3_SourceEmptied ==
    (Returned("MoveAssign") /\ last.w # None) =>
        /\ Other.size = 0 /\ Capacity(Other) = 0
        /\ This = last.beforeW

\* C3 as amended: after a move assignment v = std::move(w) of distinct
\* vectors, v holds exactly the size, capacity and elements w had and w
\* holds exactly those v had; w has size 0 and capacity 0 when v had.
C3_MoveAssignExchanges ==
    (Returned("MoveAssign") /\ last.w # None) =>
        /\ This = last.beforeW
        /\ Other = last.before
        /\ (last.before.size = 0 /\ Capacity(last.before) = 0) =>
               (Other.size = 0 /\ Capacity(Other) = 0)

\* A move assignment onto a vector that held elements has returned.
C3_Witness ==
    /\ Returned("MoveAssign") /\ last.w # None
    /\ last.before.size > 0 /\ last.beforeW.size > 0
    /\ Elems(last.before) # Elems(last.beforeW)

\* T is relocated by copying: copy constructible, move constructor not
\* noexcept.
Copying == traits.copyable /\ ~traits.nothrowMove

\* The call that threw was a growing PushBack or Reserve in which a copy of
\* the relocation threw (after the allocation and, in PushBack, after the
\* construction of the new element).
RelocationThrew ==
    \/ /\ Threw("PushBack")
       /\ last.before.size = Capacity(last.before)
       /\ last.f >= 3
    \/ /\ Threw("Reserve")
       /\ last.n > Capacity(last.before)
       /\ last.f >= 2

\* C4: for a T relocated by copying, when a copy throws during the
\* relocation of a growing PushBack or Reserve, the vector is left exactly as
\* it was before the call: same size, same capacity, same elements.
C4_StrongGuarantee ==
    (Copying /\ RelocationThrew) => This = last.before

\* A copy of the second element threw while a full vector of two elements
\* was being relocated.
C4_Witness ==
    /\ Copying /\ RelocationThrew
    /\ last.before.size = 2
    /\ last.f = IF last.op = "PushBack" THEN 4 ELSE 3
    /\ last.before.data[1] # last.before.data[2]

\* C5: when a call throws, no constructed element is leaked: none was live
\* in a block that was released, and none is live outside [0, size) of a
\* vector.
C5_NoLeakOnThrow ==
    ~last.ok =>
        /\ last.leaked = 0
        /\ \A x \in Vectors : \A i \in 1..Capacity(vecs[x]) :
               i > vecs[x].size => vecs[x].data[i] = NoObj

\* Smallest capacity reached by n appends to an empty vector: 0, 1, 2, 4, 4,
\* 8, ...
RECURSIVE Doubled(_, _)
Doubled(c, n) == IF c >= n THEN c ELSE Doubled(Max(1, 2 * c), n)

\* C6: a PushBack or Insert on a vector with size == capacity leaves
\* capacity max(1, 2 * old capacity), and with size < capacity leaves the
\* capacity as it was; a vector created empty and only appended to n times
\* has size n and the capacity the doublings 1, 2, 4, ... first reach for n.
C6_Growth ==
    /\ (Returned("PushBack") \/ Returned("Insert")) =>
          Capacity(This) =
             IF last.before.size = Capacity(last.before)
             THEN Max(1, 2 * Capacity(last.before))
             ELSE Capacity(last.before)
    /\ \A x \in Vectors :
          appends[x] >= 0 =>
             /\ vecs[x].size = appends[x]
             /\ Capacity(vecs[x]) = Doubled(0, appends[x])
             /\ Capacity(vecs[x]) >= vecs[x].size

\* Three appends to an empty vector have grown it to capacity 4.
C6_Witness ==
    /\ Returned("PushBack")
    /\ appends[last.v] = 3
    /\ Capacity(last.before) = 2 /\ Capacity(This) = 4

\* s with x inserted before 0-based position p.
InsertedAt(s, p, x) == SubSeq(s, 1, p) \o <<x>> \o SubSeq(s, p + 1, Len(s))

\* s without the element at 0-based position p.
ErasedAt(s, p) == SubSeq(s, 1, p) \o SubSeq(s, p + 2, Len(s))

\* C7: an Insert at p of a value that is no element of the vector, when it
\* returns, leaves the elements before p, the value, then the elements from
\* p on; the size is one more and the position returned is p.
C7_Insert ==
    (Returned("Insert") /\ ~last.arg.ref) =>
        /\ Elems(This) = InsertedAt(Elems(last.before), last.n, last.arg.x)
        /\ This.size = last.before.size + 1
        /\ last.ret = last.n

\* An Insert at the front of a vector of three distinct-looking elements
\* with room to spare has returned.
C7_Witness ==
    /\ Returned("Insert") /\ ~last.arg.ref
    /\ last.n = 0
    /\ last.before.size = 3 /\ Capacity(last.before) = 4
    /\ last.before.data[1] # last.before.data[2]

\* C8: an Erase at p, when it returns, leaves the elements without the one
\* at p; the size is one less, the capacity the same, one element was
\* destroyed (the trailing slot, now vacant), and the position returned
\* is p.
C8_Erase ==
    Returned("Erase") =>
        /\ Elems(This) = ErasedAt(Elems(last.before), last.n)
        /\ This.size = last.before.size - 1
        /\ Capacity(This) = Capacity(last.before)
        /\ last.dtors = 1
        /\ This.data[last.before.size] = NoObj
        /\ NumLive(This.data) = NumLive(last.before.data) - 1
        /\ last.ret = last.n

\* An Erase at the front of a vector of three elements has returned.
C8_Witness ==
    /\ Returned("Erase")
    /\ last.n = 0
    /\ last.before.size = 3
    /\ last.before.data[1] # last.before.data[2]
    /\ last.before.data[2] # last.before.data[3]

\* C9: an Erase at i made right after an Insert at i, both returning, leaves
\* the size and the elements as they were before the Insert.
C9_InsertErase ==
    (Returned("Erase") /\ last.prior.alive) =>
        /\ This.size = last.prior.size
        /\ Elems(This) = Elems(last.prior)

\* An Insert in the middle that had to grow a vector of two different
\* elements, then the Erase at the same position, have returned.
C9_Witness ==
    /\ Returned("Erase") /\ last.prior.alive
    /\ last.n = 1
    /\ last.prior.size = 2 /\ Capacity(last.prior) = 2
    /\ last.prior.data[1] # last.prior.data[2]

\* C10: a Reserve(k) that returns leaves a capacity that is not smaller than
\* before and at least k, changes nothing at all when k <= capacity, and
\* never changes the size or the elements.
C10_Reserve ==
    Returned("Reserve") =>
        /\ Capacity(This) >= Capacity(last.before)
        /\ Capacity(This) >= last.n
        /\ last.n <= Capacity(last.before) =>
              (This = last.before /\ last.dtors = 0)
        /\ This.size = last.before.size
        /\ Elems(This) = Elems(last.before)

\* A Reserve has moved two different elements into a larger block.
C10_Witness ==
    /\ Returned("Reserve")
    /\ last.n > Capacity(last.before)
    /\ last.before.size = 2
    /\ last.before.data[1] # last.before.data[2]

\* n default-valued elements.
Defaults(n) == [i \in 1..n |-> DefaultVal]

\* C11: a Resize(k) that returns, with k < size, destroys exactly the size - k
\* trailing elements and leaves size k, the capacity and the first k elements
\* as they were; with k > size it leaves the elements followed by k - size
\* default-valued ones, and the capacity as it was unless k exceeds it (then
\* k); with k = size it changes nothing.
C11_Resize ==
    Returned("Resize") =>
        LET k    == last.n
            old  == last.before
        IN  /\ This.size = k
            /\ k < old.size =>
                  /\ Capacity(This) = Capacity(old)
                  /\ Elems(This) = SubSeq(Elems(old), 1, k)
                  /\ last.dtors = old.size - k
                  /\ NumLive(This.data) = NumLive(old.data) - (old.size - k)
                  /\ \A i \in (k + 1)..old.size : This.data[i] = NoObj
            /\ k > old.size =>
                  /\ Elems(This) = Elems(old) \o Defaults(k - old.size)
                  /\ Capacity(This) =
                        IF k > Capacity(old) THEN k ELSE Capacity(old)
            /\ k = old.size => (This = old /\ last.dtors = 0)

\* A Resize has grown a vector holding a non-default element past its
\* capacity.
C11_Witness ==
    /\ Returned("Resize")
    /\ last.before.size = 1 /\ last.before.data[1] # DefaultVal
    /\ last.n = 3 /\ last.n > Capacity(last.before)

\* C12: after the move construction of a vector from a source, the source
\* has size 0 and capacity 0, the new vector has the size, capacity and
\* elements the source had, and no element was constructed or destroyed:
\* the objects live afterwards are those live before, in the same slots.
C12_MoveConstruct ==
    Returned("MoveConstruct") =>
        /\ Other.size = 0 /\ Capacity(Other) = 0
        /\ This.alive /\ This.size = last.beforeW.size
        /\ This.data = last.beforeW.data
        /\ last.dtors = 0 /\ last.leaked = 0
        /\ NumLive(This.data) + NumLive(Other.data) =
              NumLive(last.beforeW.data)

\* A vector was move-constructed from a source with an element and spare
\* capacity.
C12_Witness ==
    /\ Returned("MoveConstruct")
    /\ last.beforeW.size = 1 /\ Capacity(last.beforeW) = 2

\* C13: a copy construction that returns gives a vector with the size of
\* other, a capacity equal to that size, and the same elements, and leaves
\* other as it was; and a call on one vector, whatever it is and whether it
\* returns or throws, leaves every other vector as it was.
C13_CopyIndependent ==
    [][/\ (last'.op = "CopyConstruct" /\ last'.ok) =>
              /\ vecs'[last'.v].alive
              /\ vecs'[last'.v].size = last'.beforeW.size
              /\ Capacity(vecs'[last'.v]) = last'.beforeW.size
              /\ Elems(vecs'[last'.v]) = Elems(last'.beforeW)
              /\ vecs'[last'.w] = last'.beforeW
       /\ (last'.op # None /\ last'.w = None) =>
              \A y \in Vectors \ {last'.v} : vecs'[y] = vecs[y]
      ]_vars

\* A copy was constructed from a vector with an element and spare capacity,
\* and so has a smaller capacity than its original.
C13_Witness ==
    /\ Returned("CopyConstruct")
    /\ last.beforeW.size = 1 /\ Capacity(last.beforeW) = 2
    /\ Capacity(This) = 1

\* C14: Vector(n), when it returns, has size n and capacity n, and each of
\* its n slots holds a default-valued element; Vector(0) and Vector() have
\* size 0 and capacity 0 and hold no block: no allocation is made for them,
\* so Vector(0) has no step that can throw.
C14_Create ==
    /\ Returned("CreateSized") =>
          /\ This.alive
          /\ This.size = last.n /\ Capacity(This) = last.n
          /\ This.data = Defaults(last.n)
    /\ Returned("Create") =>
          /\ This.alive
          /\ This.size = 0 /\ Capacity(This) = 0 /\ This.data = <<>>
    /\ ~(Threw("CreateSized") /\ last.n = 0)

\* Vector(3) has returned.
C14_Witness ==
    /\ Returned("CreateSized")
    /\ last.n = 3 /\ This.size = 3

\* C15: a PopBack leaves the capacity as it was just before it; made right
\* after a PushBack that returned, it leaves the size the vector had before
\* the PushBack and, below that size, the elements it had.
C15_PushPop ==
    Returned("PopBack") =>
        /\ Capacity(This) = Capacity(last.before)
        /\ last.prior.alive =>
              /\ This.size = last.prior.size
              /\ Elems(This) = Elems(last.prior)

\* A PushBack that had to grow a full vector of two different elements, then
\* a PopBack, have returned.
C15_Witness ==
    /\ Returned("PopBack") /\ last.prior.alive
    /\ last.prior.size = 2 /\ Capacity(last.prior) = 2
    /\ last.prior.data[1] # last.prior.data[2]
    /\ Capacity(This) = 4

\* An Insert on a full vector has thrown: in the allocation (step 1), in the
\* construction of the new element (step 2), or in the relocation of the
\* elements before the position and then of those from the position on
\* (steps 3 and up).
GrowingInsertThrew ==
    Threw("Insert") /\ last.before.size = Capacity(last.before)

\* C16 as stated: an Insert on a full vector that throws at any of its steps
\* leaves no element live in the released new block and leaves the vector
\* with the size, capacity and elements it had.
C16_GrowthStrong ==
    GrowingInsertThrew =>
        /\ last.leaked = 0
        /\ This = last.before

\* C16 as amended: an Insert on a full vector that throws at any of its
\* steps leaves no element live in the released new block and leaves the
\* size and the capacity as they were; it leaves the elements as they were
\* when T is relocated by copying or has a noexcept move constructor, and
\* otherwise leaves each element either as it was or moved from.
C16_GrowthRollback ==
    GrowingInsertThrew =>
        /\ last.leaked = 0
        /\ This.size = last.before.size
        /\ Capacity(This) = Capacity(last.before)
        /\ (traits.copyable \/ traits.nothrowMove) => This = last.before
        /\ \A i \in 1..Capacity(This) :
              This.data[i] \in {last.before.data[i], Moved}

\* For a T relocated by copying, the copy of the element at the position
\* threw after the new element and the element before the position had been
\* placed in the new block.
C16_Witness ==
    /\ GrowingInsertThrew /\ Copying
    /\ last.before.size = 2 /\ last.n = 1
    /\ last.f = 4
    /\ last.dtors = 2

\* A copy assignment from a vector with more elements than this has capacity
\* for has thrown.
RebuildThrew ==
    /\ Threw("CopyAssign") /\ last.w # None
    /\ last.beforeW.size > Capacity(last.before)

\* C17: when a copy assignment from an other with more elements than this
\* has capacity for throws, in the allocation or in any copy, this is left
\* with the size, capacity and elements it had, other is left as it was, and
\* the elements of the replacement were destroyed before its block was
\* released.
C17_RebuildStrong ==
    RebuildThrew =>
        /\ This = last.before
        /\ Other = last.beforeW
        /\ last.leaked = 0
        /\ last.dtors = Max(0, last.f - 2)

\* The copy of the second element of other threw while the replacement of a
\* non-empty this was being built.
C17_Witness ==
    /\ RebuildThrew
    /\ last.before.size = 1
    /\ last.beforeW.size = 2
    /\ last.f = 3

\* C18: after any sequence of calls that returned, every element that was
\* constructed is destroyed exactly once by the time the vectors are
\* destroyed: no call released or constructed over an element that was still
\* live, and the size_ slots ~Vector destroys in each vector are exactly the
\* slots of its block that hold a live element.
C18_DestroyedOnce ==
    last.ok =>
        /\ last.leaked = 0
        /\ \A x \in Vectors :
              vecs[x].alive =>
                 {i \in 1..Capacity(vecs[x]) : vecs[x].data[i] # NoObj}
                    = 1..vecs[x].size

\* C19: a PushBack or an Insert at p whose value is a reference to element j
\* of the vector itself, when it returns, has inserted the value element j
\* had before the call, and the other elements keep their values and their
\* order, with and without growth.
C19_AliasedValue ==
    ((Returned("PushBack") \/ Returned("Insert")) /\ last.arg.ref) =>
        LET old == Elems(last.before)
            p   == IF last.op = "PushBack" THEN last.before.size ELSE last.n
        IN  Elems(This) = InsertedAt(old, p, old[last.arg.x + 1])

\* The objects of a kept record of a call on RawMemory objects.
ThisRaw == raws[last.v]
OtherRaw == raws[last.w]

\* No region is the buffer_ of two objects; every region operator new
\* returned and operator delete has not released is the buffer_ of an
\* object; and no object holds a region that was released or never
\* returned.
RegionsOwnedOnce ==
    /\ \A r, s \in Raws :
          (r # s /\ raws[r].alive /\ raws[s].alive /\ raws[r].buffer # Null)
             => raws[r].buffer # raws[s].buffer
    /\ \A g \in Regions :
          regions[g] = "held" <=>
             \E r \in Raws : raws[r].alive /\ raws[r].buffer = g
    /\ \A r \in Raws : raws[r].buffer = Null => raws[r].capacity = 0

\* C20 as stated: after a move construction of a RawMemory, and after a
\* move assignment onto a distinct RawMemory in any state, the source has a
\* null buffer_ and capacity_ 0 and the destination has the buffer_ and the
\* capacity_ the source had; and regions are owned once.
C20_SourceEmptied ==
    /\ (last.op \in {"RawMoveConstruct", "RawMoveAssign"} /\ last.w # None) =>
          /\ OtherRaw = EmptyRaw
          /\ ThisRaw = last.beforeW
    /\ RegionsOwnedOnce

\* C20 as amended: after a move construction the source has a null buffer_
\* and capacity_ 0 and the new object has what the source had; after a move
\* assignment onto a distinct object the destination has what the source
\* had and the source has what the destination had, so it is empty only
\* when the destination was; and regions are owned once.
C20_MoveTransfers ==
    /\ (last.op = "RawMoveConstruct") =>
          /\ OtherRaw = EmptyRaw
          /\ ThisRaw = last.beforeW
    /\ (last.op = "RawMoveAssign" /\ last.w # None) =>
          /\ ThisRaw = last.beforeW
          /\ OtherRaw = last.before
    /\ RegionsOwnedOnce

\* A RawMemory holding a region was move-assigned onto a distinct RawMemory
\* holding another region of another capacity.
C20_Witness ==
    /\ last.op = "RawMoveAssign" /\ last.w # None
    /\ last.before.buffer # Null /\ last.beforeW.buffer # Null
    /\ last.before.capacity # last.beforeW.capacity

====
